---- MODULE Spec2Model ----
(***************************************************************************)
(* Tuya Cloud -> MQTT bridge (src/bridge.py).                              *)
(*                                                                         *)
(* The model follows the single thread of main(): the startup publishes,   *)
(* the startup connect(), and then the poll loop.  One loop iteration is   *)
(* split at the points where the program waits for the cloud: every HTTP   *)
(* exchange of TuyaOpenAPI._request is one step (the server's answer is    *)
(* the step's input), the rest of the iteration (fetch_shadow_v2's         *)
(* decoding, the extractors, the MQTT publishes) is one step, and          *)
(* time.sleep(POLL_INTERVAL) is one step.                                  *)
(*                                                                         *)
(* Python values are encoded as follows.                                   *)
(*   - None / a missing key / the empty string used as a token: NoToken.   *)
(*   - A JSON value of a property: [type, num, str]; a float is held in    *)
(*     tenths (num = 10 * value), a string as a sequence of characters.    *)
(*   - An optional result (bool or None, int or None): <<>> or <<v>>.      *)
(*   - The clock time.time() is a non-decreasing integer number of         *)
(*     seconds; an HTTP exchange takes no model time.                      *)
(*   - mqtt.publish never raises inside the loop: the topics and payload   *)
(*     types are those of the startup publishes, which went through.       *)
(*   - Numbers of the shadow are finite (no NaN or Infinity), so int()     *)
(*     in pick_battery does not raise.                                     *)
(*   - log, ticks and the variables marked "history" are not program       *)
(*     state: they record what the program did, for the properties below.  *)
(*                                                                         *)
(* Two further specifications apply pure functions on their own, to inputs *)
(* drawn from bounded sets: ExtractSpec (pick_boolean and pick_battery on  *)
(* a snapshot) and PathSpec (the query string and path of _request for a   *)
(* parameter mapping in two insertion orders).                             *)
(***************************************************************************)
EXTENDS Integers, Sequences, FiniteSets, TLC

VARIABLES
    pc,            \* position of main(): boot, connect, loop, fetch, refresh, process,
                   \* raising, sleep, dead
    access_token,  \* TuyaOpenAPI.access_token
    retry,         \* the retry argument of the _request call in progress
    pending,       \* data of the _request call that is waiting for connect()
    ret,           \* value returned by api.get() to fetch_shadow_v2
    last_ok,       \* main's last_ok
    avail_state,   \* main's avail_state
    now,           \* time.time()
    poll_interval, \* POLL_INTERVAL
    log,           \* requests, responses and publishes of the current iteration, in order
    ticks,         \* history: number of loop iterations started
    last_avail,    \* history: payload of the latest availability publish
    snap_time,     \* history: time the latest non-empty snapshot was obtained, -1 if none
    snapshot,      \* history: by_code of the latest completed iteration (empty if none)
    same_as_prev,  \* history: this iteration's snapshot is non-empty and equals the previous one
    empty_run,     \* history: every iteration so far returned an empty snapshot
    raised,        \* history: the latest iteration ended in main's except clause
    input,         \* argument of a pure function applied on its own (extractors, path builder)
    output         \* what it returned, NotCalled before the call

vars == <<pc, access_token, retry, pending, ret, last_ok, avail_state, now,
          poll_interval, log, ticks, last_avail, snap_time, snapshot,
          same_as_prev, empty_run, raised, input, output>>

-----------------------------------------------------------------------------
(* Bounds and program constants *)

MaxTicks == 6

\* cap on the events recorded for one iteration (a real iteration records at most nine)
MaxLog == 12

\* most codes present in a snapshot handed to the extractors on their own
MaxPresent == 3

OFFLINE_AFTER == 300

TOKEN_INVALID == 1010

\* values of the POLL_INTERVAL environment variable that are explored
PollIntervals == {100, 400}

NoToken == ""

\* input and output while no pure function is being called
NotCalled == <<>>

Tokens == {"tokA", "tokB"}

TOKEN_PATH == "/v1.0/token"

SHADOW_PATH == "/v2.0/cloud/thing/DEVICE_ID/shadow/properties"

AVAIL_TOPIC == "tuya/ENTITY_ID/availability"

STATE_TOPIC == "tuya/ENTITY_ID/state"

BATT_TOPIC == "tuya/ENTITY_ID/battery"

-----------------------------------------------------------------------------
(* JSON values of the device shadow *)

BoolVal(b) == [type |-> "bool", num |-> IF b THEN 1 ELSE 0, str |-> <<>>]

IntVal(n) == [type |-> "int", num |-> n, str |-> <<>>]

FloatTenths(n) == [type |-> "float", num |-> n, str |-> <<>>]

StrVal(s) == [type |-> "str", num |-> 0, str |-> s]

NullVal == [type |-> "null", num |-> 0, str |-> <<>>]

\* one entry of result.properties: a JSON object with optional code and value,
\* or something that is not an object
Item(c, v) == [isobj |-> TRUE, hascode |-> TRUE, code |-> c, val |-> v]

NoCodeItem(v) == [isobj |-> TRUE, hascode |-> FALSE, code |-> "", val |-> v]

NonObjectItem == [isobj |-> FALSE, hascode |-> FALSE, code |-> "", val |-> NullVal]

PropsMissing == [shape |-> "missing", items |-> <<>>]

PropsList(items) == [shape |-> "list", items |-> items]

PropsDict(items) == [shape |-> "dict", items |-> items]

PropsOther == [shape |-> "other", items |-> <<>>]

PropsInputs ==
    { PropsMissing,
      PropsOther,
      PropsList(<<>>),
      PropsList(<<Item("doorcontact_state", BoolVal(TRUE)), Item("battery_percentage", IntVal(87))>>),
      PropsList(<<Item("doorcontact_state", IntVal(0))>>),
      PropsList(<<Item("battery_state", StrVal(<<"L", "o", "w", " ">>))>>),
      PropsList(<<Item("temperature", IntVal(21))>>),
      PropsList(<<NoCodeItem(IntVal(1))>>),
      PropsList(<<Item("doorcontact_state", BoolVal(TRUE)), NonObjectItem>>),
      PropsDict(<<Item("switch_1", BoolVal(FALSE)), Item("battery", FloatTenths(425))>>) }

-----------------------------------------------------------------------------
(* What the server can answer *)

\* kind: neterr (requests.get raised), nonjson (resp.json() raised; code holds the
\* HTTP status), nondict (a JSON body that is not an object), dict (a JSON object)
Resp(kind, success, code, result, token, props) ==
    [kind |-> kind, success |-> success, code |-> code, result |-> result,
     token |-> token, props |-> props]

NetErr == Resp("neterr", FALSE, 0, "missing", NoToken, PropsMissing)

NonJson == Resp("nonjson", FALSE, 502, "missing", NoToken, PropsMissing)

NonDict == Resp("nondict", FALSE, 0, "missing", NoToken, PropsMissing)

Fail(code) == Resp("dict", FALSE, code, "missing", NoToken, PropsMissing)

TokenResponses ==
    { NetErr, NonJson, NonDict, Fail(1004), Fail(TOKEN_INVALID),
      Resp("dict", TRUE, 0, "missing", NoToken, PropsMissing),
      Resp("dict", TRUE, 0, "null", NoToken, PropsMissing),
      Resp("dict", TRUE, 0, "obj", NoToken, PropsMissing) }
    \cup { Resp("dict", TRUE, 0, "obj", t, PropsMissing) : t \in Tokens }

ShadowResponses ==
    { NetErr, NonJson, NonDict, Fail(1004), Fail(TOKEN_INVALID),
      Resp("dict", TRUE, 0, "missing", NoToken, PropsMissing),
      Resp("dict", TRUE, 0, "null", NoToken, PropsMissing) }
    \cup { Resp("dict", TRUE, 0, "obj", NoToken, p) : p \in PropsInputs }
    \cup { Resp("dict", TRUE, TOKEN_INVALID, "obj", NoToken,
                 PropsList(<<Item("doorcontact_state", IntVal(0))>>)) }

-----------------------------------------------------------------------------
(* TuyaOpenAPI *)

\* the data of _request after requests.get and resp.json()
Data(isdict, success, code, msg, result, token, props) ==
    [isdict |-> isdict, success |-> success, code |-> code, msg |-> msg,
     result |-> result, token |-> token, props |-> props]

NoData == Data(FALSE, FALSE, 0, "", "missing", NoToken, PropsMissing)

Parse(r) ==
    CASE r.kind = "neterr"  -> Data(TRUE, FALSE, 0, "HTTP error", "missing", NoToken, PropsMissing)
      [] r.kind = "nonjson" -> Data(TRUE, FALSE, r.code, "non-json", "missing", NoToken, PropsMissing)
      [] r.kind = "nondict" -> Data(FALSE, FALSE, 0, "", "missing", NoToken, PropsMissing)
      [] OTHER              -> Data(TRUE, r.success, r.code, "", r.result, r.token, r.props)

\* faulty variant: the message is built without the token segment
SignToken_Omitted(use_token, tok) == NoToken

\* the token segment of the signed message and the access_token header
SignToken(use_token, tok) == IF use_token /\ tok # NoToken THEN tok ELSE NoToken

HeaderToken(use_token, tok) == IF use_token /\ tok # NoToken THEN tok ELSE NoToken

\* held records access_token at the time of the request (history only)
ReqEvent(path, use_token, tok) ==
    [ev |-> "req", path |-> path, use_token |-> use_token, held |-> tok,
     sign_token |-> SignToken(use_token, tok), hdr_token |-> HeaderToken(use_token, tok)]

RespEvent(path, data) == [ev |-> "resp", path |-> path, data |-> data]

PubEvent(topic, payload) == [ev |-> "pub", topic |-> topic, payload |-> payload]

\* an exception leaving the function named by origin (history only)
ExcEvent(type, origin) == [ev |-> "exc", type |-> type, origin |-> origin]

\* "Auto-refresh once on 1010"
RefreshNeeded(use_token, data, rtry) ==
    use_token /\ data.isdict /\ data.code = TOKEN_INVALID /\ rtry

\* faulty variant: the request after the refresh may refresh again
RetryArgOfRetry_Kept == TRUE

\* the retry argument of the request that follows a successful refresh
RetryArgOfRetry == FALSE

\* faulty variant: the token request is sent like any other request
ConnectUseToken_Default == TRUE

\* the use_token argument connect() passes to _request
ConnectUseToken == FALSE

\* connect(): data.get('result', {}).get('access_token') raises when result is null
ConnectRaises(data) == data.isdict /\ data.success /\ data.result = "null"

ConnectToken(tok, data) ==
    IF data.isdict /\ data.success /\ data.result = "obj" /\ data.token # NoToken
    THEN data.token
    ELSE tok

\* faulty variant: the success flag of connect()'s result is not looked at
RefreshSucceeded_AnyDict(c) == c.isdict

\* "if isinstance(c, dict) and c.get('success')"
RefreshSucceeded(c) == c.isdict /\ c.success

-----------------------------------------------------------------------------
(* fetch_shadow_v2 *)

EmptySnapshot == [c \in {} |-> NullVal]

\* by_code built by the loop over a list: a later item with the same code wins,
\* items without a code are skipped
ByCodeOfItems(items) ==
    LET idx(c) == { i \in 1..Len(items) : items[i].hascode /\ items[i].code = c }
        last(c) == CHOOSE i \in idx(c) : \A j \in idx(c) : j <= i
    IN  [c \in { items[i].code : i \in { j \in 1..Len(items) : items[j].hascode } }
            |-> items[last(c)].val]

\* sh.get("result", {}).get("properties", [])
PropsOf(sh) ==
    IF sh.result = "obj" /\ sh.props.shape # "missing" THEN sh.props ELSE PropsList(<<>>)

\* AttributeError: result is null, or an entry of the list has no .get
FetchRaises(sh) ==
    /\ sh.isdict /\ sh.success
    /\ \/ sh.result = "null"
       \/ /\ PropsOf(sh).shape = "list"
          /\ \E i \in 1..Len(PropsOf(sh).items) : ~PropsOf(sh).items[i].isobj

\* the value returned when nothing is raised
FetchShadow(sh) ==
    IF sh.isdict /\ sh.success
    THEN CASE PropsOf(sh).shape = "list" -> ByCodeOfItems(PropsOf(sh).items)
           [] PropsOf(sh).shape = "dict" -> ByCodeOfItems(PropsOf(sh).items)
           [] OTHER                      -> EmptySnapshot
    ELSE EmptySnapshot

HasData(by_code) == DOMAIN by_code # {}

-----------------------------------------------------------------------------
(* value pickers *)

ContactCodes ==
    <<"doorcontact_state", "contact_state", "contact", "door", "open", "switch_1", "switch">>

\* isinstance(v, (bool, int))
IsBoolOrInt(v) == v.type \in {"bool", "int"}

\* faulty variant: the first candidate code that is present decides, whatever its type
pick_boolean_StopsAtPresent(by_code) ==
    LET hits == { i \in 1..Len(ContactCodes) : ContactCodes[i] \in DOMAIN by_code }
    IN  IF hits = {} THEN <<>>
        ELSE LET first == CHOOSE i \in hits : \A j \in hits : i <= j
             IN  IF IsBoolOrInt(by_code[ContactCodes[first]])
                 THEN <<by_code[ContactCodes[first]].num # 0>>
                 ELSE <<>>

pick_boolean(by_code) ==
    LET hits == { i \in 1..Len(ContactCodes) :
                    ContactCodes[i] \in DOMAIN by_code /\ IsBoolOrInt(by_code[ContactCodes[i]]) }
    IN  IF hits = {} THEN <<>>
        ELSE LET first == CHOOSE i \in hits : \A j \in hits : i <= j
             IN  <<by_code[ContactCodes[first]].num # 0>>

\* isinstance(v, (int, float)); bool is a subclass of int
IsIntOrFloat(v) == v.type \in {"bool", "int", "float"}

\* int(v): truncation toward zero
ToInt(v) ==
    IF v.type = "float"
    THEN IF v.num >= 0 THEN v.num \div 10 ELSE -((-v.num) \div 10)
    ELSE v.num

Whitespace == {" ", "\t", "\n"}

Strip(s) ==
    LET keep == { i \in 1..Len(s) : s[i] \notin Whitespace }
    IN  IF keep = {} THEN <<>>
        ELSE SubSeq(s, CHOOSE i \in keep : \A j \in keep : i <= j,
                       CHOOSE i \in keep : \A j \in keep : j <= i)

UpperChars ==
    <<"A","B","C","D","E","F","G","H","I","J","K","L","M",
      "N","O","P","Q","R","S","T","U","V","W","X","Y","Z">>

LowerChars ==
    <<"a","b","c","d","e","f","g","h","i","j","k","l","m",
      "n","o","p","q","r","s","t","u","v","w","x","y","z">>

LowerChar(c) ==
    IF \E i \in 1..Len(UpperChars) : UpperChars[i] = c
    THEN LowerChars[CHOOSE i \in 1..Len(UpperChars) : UpperChars[i] = c]
    ELSE c

Lower(s) == [i \in 1..Len(s) |-> LowerChar(s[i])]

\* m.get(...) of {"low": 20, "middle": 60, "medium": 60, "high": 100}
BatteryLevel(s) ==
    CASE s = <<"l","o","w">>                 -> <<20>>
      [] s = <<"m","i","d","d","l","e">>     -> <<60>>
      [] s = <<"m","e","d","i","u","m">>     -> <<60>>
      [] s = <<"h","i","g","h">>             -> <<100>>
      [] OTHER                               -> <<>>

pick_battery(by_code) ==
    IF "battery_percentage" \in DOMAIN by_code /\ IsIntOrFloat(by_code["battery_percentage"])
    THEN <<ToInt(by_code["battery_percentage"])>>
    ELSE IF "battery" \in DOMAIN by_code /\ IsIntOrFloat(by_code["battery"])
    THEN <<ToInt(by_code["battery"])>>
    ELSE IF "battery_state" \in DOMAIN by_code /\ by_code["battery_state"].type = "str"
    THEN BatteryLevel(Lower(Strip(by_code["battery_state"].str)))
    ELSE <<>>

-----------------------------------------------------------------------------
(* main: the decisions of one loop iteration *)

\* faulty variant: "online" is published after every read with data
OnlineDue_Always(avail) == TRUE

\* "if avail_state != 'online'" after a read with data
OnlineDue(avail) == avail # "online"

\* faulty variant: the threshold itself already counts as exceeded
OfflineDue_AtThreshold(t, lastok, avail) == t - lastok >= OFFLINE_AFTER /\ avail # "offline"

\* faulty variant: the current state is not looked at
OfflineDue_NoStateCheck(t, lastok, avail) == t - lastok > OFFLINE_AFTER

\* "if time.time() - last_ok > OFFLINE_AFTER and avail_state != 'offline'"
OfflineDue(t, lastok, avail) == t - lastok > OFFLINE_AFTER /\ avail # "offline"

\* faulty variant: the battery publish sits inside the branch of a found contact value
ValuePublishes_Nested(by_code) ==
    LET onoff == pick_boolean(by_code)
        batt  == pick_battery(by_code)
    IN  IF onoff # <<>>
        THEN <<PubEvent(STATE_TOPIC, IF onoff[1] THEN "ON" ELSE "OFF")>>
             \o (IF batt # <<>> THEN <<PubEvent(BATT_TOPIC, ToString(batt[1]))>> ELSE <<>>)
        ELSE <<>>

\* the state and battery publishes of an iteration that got data
ValuePublishes(by_code) ==
    LET onoff == pick_boolean(by_code)
        batt  == pick_battery(by_code)
    IN  (IF onoff # <<>> THEN <<PubEvent(STATE_TOPIC, IF onoff[1] THEN "ON" ELSE "OFF")>> ELSE <<>>)
        \o (IF batt # <<>> THEN <<PubEvent(BATT_TOPIC, ToString(batt[1]))>> ELSE <<>>)

\* faulty variant: only the errors of the HTTP library are caught
HandlerCatches_RequestsOnly(exc) == exc \in {"RequestException"}

\* the exceptions "except Exception" catches
HandlerCatches(exc) == exc \in {"AttributeError", "TypeError", "ValueError"}

-----------------------------------------------------------------------------
(* The state machine *)

Init ==
    /\ pc = "boot"
    /\ access_token = NoToken
    /\ retry = TRUE
    /\ pending = NoData
    /\ ret = NoData
    /\ last_ok = 0
    /\ avail_state = "unset"
    /\ now = 0
    /\ poll_interval \in PollIntervals
    /\ log = <<>>
    /\ ticks = 0
    /\ last_avail = "none"
    /\ snap_time = -1
    /\ snapshot = EmptySnapshot
    /\ same_as_prev = FALSE
    /\ empty_run = TRUE
    /\ raised = FALSE
    /\ input = NotCalled
    /\ output = NotCalled

\* where main continues when an exception of type exc reaches the loop's try
AfterException(exc) == IF HandlerCatches(exc) THEN "sleep" ELSE "dead"

\* faulty variant: the optimistic "online" goes out before the discovery payloads
StartupPublishes_OnlineFirst ==
    <<PubEvent(AVAIL_TOPIC, "online"),
      PubEvent("homeassistant/binary_sensor/ENTITY_ID/config", "cfg"),
      PubEvent("homeassistant/sensor/ENTITY_ID_battery/config", "batt_cfg")>>

\* publish_discovery(mqtt), then mqtt.publish(AVAIL_TOPIC, "online", retain=True)
StartupPublishes ==
    <<PubEvent("homeassistant/binary_sensor/ENTITY_ID/config", "cfg"),
      PubEvent("homeassistant/sensor/ENTITY_ID_battery/config", "batt_cfg"),
      PubEvent(AVAIL_TOPIC, "online")>>

\* mqtt_connect, publish_discovery and the optimistic "online"
Startup ==
    /\ pc = "boot"
    /\ log' = StartupPublishes
    /\ last_avail' = "online"
    /\ pc' = "connect"
    /\ UNCHANGED <<access_token, retry, pending, ret, last_ok, avail_state, now,
                   poll_interval, ticks, snap_time, snapshot, same_as_prev,
                   empty_run, raised>>
    /\ UNCHANGED <<input, output>>

\* api.connect() of main, inside try/except: one exchange with the token endpoint
StartupConnect ==
    /\ pc = "connect"
    /\ Len(log) < MaxLog
    /\ \E rc \in TokenResponses :
         LET c == Parse(rc) IN
         /\ log' = log \o <<ReqEvent(TOKEN_PATH, ConnectUseToken, access_token),
                            RespEvent(TOKEN_PATH, c)>>
                        \o (IF ConnectRaises(c) /\ ~RefreshNeeded(ConnectUseToken, c, TRUE)
                            THEN <<ExcEvent("AttributeError", "connect")>> ELSE <<>>)
         /\ IF RefreshNeeded(ConnectUseToken, c, TRUE)
            THEN \* connect() would be entered again from inside _request
                 /\ pc' = "connect"
                 /\ UNCHANGED access_token
            ELSE /\ pc' = "loop"
                 /\ access_token' = IF ConnectRaises(c) THEN access_token
                                    ELSE ConnectToken(access_token, c)
    /\ UNCHANGED <<retry, pending, ret, last_ok, avail_state, now, poll_interval,
                   ticks, last_avail, snap_time, snapshot, same_as_prev,
                   empty_run, raised>>
    /\ UNCHANGED <<input, output>>

\* last_ok = time.time(); avail_state = "online"; the first iteration begins
LoopStart ==
    /\ pc = "loop"
    /\ last_ok' = now
    /\ avail_state' = "online"
    /\ retry' = TRUE
    /\ ticks' = 1
    /\ log' = <<>>
    /\ pc' = "fetch"
    /\ UNCHANGED <<access_token, pending, ret, now, poll_interval, last_avail,
                   snap_time, snapshot, same_as_prev, empty_run, raised>>
    /\ UNCHANGED <<input, output>>

\* one exchange of _request(GET, shadow path, use_token=True, retry) with the server
Request ==
    /\ pc = "fetch"
    /\ Len(log) < MaxLog
    /\ \E r \in ShadowResponses :
         LET data == Parse(r) IN
         /\ log' = log \o <<ReqEvent(SHADOW_PATH, TRUE, access_token),
                            RespEvent(SHADOW_PATH, data)>>
         /\ IF RefreshNeeded(TRUE, data, retry)
            THEN /\ pending' = data
                 /\ pc' = "refresh"
                 /\ UNCHANGED ret
            ELSE /\ ret' = data
                 /\ pc' = "process"
                 /\ UNCHANGED pending
    /\ UNCHANGED <<access_token, retry, last_ok, avail_state, now, poll_interval,
                   ticks, last_avail, snap_time, snapshot, same_as_prev,
                   empty_run, raised>>
    /\ UNCHANGED <<input, output>>

\* self.connect() inside _request, and what _request does with its result
Refresh ==
    /\ pc = "refresh"
    /\ Len(log) < MaxLog
    /\ \E rc \in TokenResponses :
         LET c == Parse(rc) IN
         /\ log' = log \o <<ReqEvent(TOKEN_PATH, ConnectUseToken, access_token),
                            RespEvent(TOKEN_PATH, c)>>
                        \o (IF ConnectRaises(c) /\ ~RefreshNeeded(ConnectUseToken, c, TRUE)
                            THEN <<ExcEvent("AttributeError", "connect")>> ELSE <<>>)
         /\ IF RefreshNeeded(ConnectUseToken, c, TRUE)
            THEN \* connect() would be entered again from inside _request
                 /\ pc' = "refresh"
                 /\ UNCHANGED <<access_token, retry, ret, snapshot, same_as_prev,
                                empty_run, raised>>
            ELSE IF ConnectRaises(c)
            THEN \* the AttributeError leaves get() and fetch_shadow_v2
                 /\ pc' = "raising"
                 /\ snapshot' = EmptySnapshot
                 /\ same_as_prev' = FALSE
                 /\ empty_run' = FALSE
                 /\ raised' = TRUE
                 /\ UNCHANGED <<access_token, retry, ret>>
            ELSE /\ access_token' = ConnectToken(access_token, c)
                 /\ IF RefreshSucceeded(c)
                    THEN /\ retry' = RetryArgOfRetry
                         /\ pc' = "fetch"
                         /\ UNCHANGED ret
                    ELSE /\ ret' = pending
                         /\ pc' = "process"
                         /\ UNCHANGED retry
                 /\ UNCHANGED <<snapshot, same_as_prev, empty_run, raised>>
    /\ UNCHANGED <<pending, last_ok, avail_state, now, poll_interval, ticks,
                   last_avail, snap_time>>
    /\ UNCHANGED <<input, output>>

\* faulty variant: the values are published before availability is restored
WithData_ValuesFirst(by_code, t, avail) ==
    [last_ok |-> t,
     avail   |-> "online",
     events  |-> ValuePublishes(by_code)
                 \o (IF OnlineDue(avail) THEN <<PubEvent(AVAIL_TOPIC, "online")>> ELSE <<>>)]

\* what main does with a non-empty by_code: last_ok, the "online" publish when
\* due, the value publishes
WithData(by_code, t, avail) ==
    [last_ok |-> t,
     avail   |-> "online",
     events  |-> (IF OnlineDue(avail) THEN <<PubEvent(AVAIL_TOPIC, "online")>> ELSE <<>>)
                 \o ValuePublishes(by_code)]

\* faulty variant: a read without data also counts as a successful read
WithoutData_TouchesLastOk(t, lastok, avail) ==
    [last_ok |-> t,
     avail   |-> IF OfflineDue(t, lastok, avail) THEN "offline" ELSE avail,
     events  |-> IF OfflineDue(t, lastok, avail)
                 THEN <<PubEvent(AVAIL_TOPIC, "offline")>> ELSE <<>>]

\* what main does with an empty by_code: the "offline" publish when due
WithoutData(t, lastok, avail) ==
    [last_ok |-> lastok,
     avail   |-> IF OfflineDue(t, lastok, avail) THEN "offline" ELSE avail,
     events  |-> IF OfflineDue(t, lastok, avail)
                 THEN <<PubEvent(AVAIL_TOPIC, "offline")>> ELSE <<>>]

\* the body of the try block once fetch_shadow_v2 returned by_code
Iteration(by_code, t, lastok, avail) ==
    IF HasData(by_code)
    THEN WithData(by_code, t, avail)
    ELSE WithoutData(t, lastok, avail)

\* the payload of the latest availability publish after the events evs
LatestAvail(evs, before) ==
    IF \E i \in 1..Len(evs) : evs[i].topic = AVAIL_TOPIC
    THEN evs[CHOOSE i \in 1..Len(evs) :
                /\ evs[i].topic = AVAIL_TOPIC
                /\ \A j \in 1..Len(evs) : evs[j].topic = AVAIL_TOPIC => j <= i].payload
    ELSE before

\* the rest of the iteration when fetch_shadow_v2 raises
ProcessRaises ==
    /\ pc = "process"
    /\ FetchRaises(ret)
    /\ pc' = "raising"
    /\ log' = log \o <<ExcEvent("AttributeError", "fetch_shadow_v2")>>
    /\ snapshot' = EmptySnapshot
    /\ same_as_prev' = FALSE
    /\ empty_run' = FALSE
    /\ raised' = TRUE
    /\ UNCHANGED <<access_token, retry, pending, ret, last_ok, avail_state, now,
                   poll_interval, ticks, last_avail, snap_time>>
    /\ UNCHANGED <<input, output>>

\* the rest of the iteration otherwise: fetch_shadow_v2 decodes the value of
\* get(), main updates last_ok and avail_state and publishes
Process ==
    /\ pc = "process"
    /\ ~FetchRaises(ret)
    /\ \E by_code \in {FetchShadow(ret)} :
       \E out \in {Iteration(by_code, now, last_ok, avail_state)} :
         /\ log' = log \o out.events
         /\ last_ok' = out.last_ok
         /\ avail_state' = out.avail
         /\ last_avail' = LatestAvail(out.events, last_avail)
         /\ snap_time' = IF HasData(by_code) THEN now ELSE snap_time
         /\ snapshot' = by_code
         /\ same_as_prev' = (HasData(by_code) /\ by_code = snapshot)
         /\ empty_run' = (empty_run /\ ~HasData(by_code))
    /\ raised' = FALSE
    /\ pc' = "sleep"
    /\ UNCHANGED <<access_token, retry, pending, ret, now, poll_interval, ticks>>
    /\ UNCHANGED <<input, output>>

\* the exception reaches the try statement of the loop: the except clause logs
\* it and the iteration goes on to time.sleep
Handler ==
    /\ pc = "raising"
    /\ pc' = AfterException(log[Len(log)].type)
    /\ UNCHANGED <<access_token, retry, pending, ret, last_ok, avail_state, now,
                   poll_interval, log, ticks, last_avail, snap_time, snapshot,
                   same_as_prev, empty_run, raised>>
    /\ UNCHANGED <<input, output>>

\* time.sleep(POLL_INTERVAL), then the next iteration begins
Sleep ==
    /\ pc = "sleep"
    /\ ticks < MaxTicks
    /\ now' = now + poll_interval
    /\ ticks' = ticks + 1
    /\ retry' = TRUE
    /\ pending' = NoData
    /\ ret' = NoData
    /\ log' = <<>>
    /\ pc' = "fetch"
    /\ UNCHANGED <<access_token, last_ok, avail_state, poll_interval, last_avail,
                   snap_time, snapshot, same_as_prev, empty_run, raised>>
    /\ UNCHANGED <<input, output>>

Next ==
    \/ Startup
    \/ StartupConnect
    \/ LoopStart
    \/ Request
    \/ Refresh
    \/ ProcessRaises
    \/ Process
    \/ Handler
    \/ Sleep

Spec == Init /\ [][Next]_vars

\* the loop is the only thread: a step that can be taken is taken
FairSpec == Spec /\ WF_vars(Next)

-----------------------------------------------------------------------------
(* Reading the log of the current iteration *)

Events(kind) == SelectSeq(log, LAMBDA e : e.ev = kind)

ReqsTo(path) == SelectSeq(log, LAMBDA e : e.ev = "req" /\ e.path = path)

RespsFrom(path) == SelectSeq(log, LAMBDA e : e.ev = "resp" /\ e.path = path)

PubsOn(topic) == SelectSeq(log, LAMBDA e : e.ev = "pub" /\ e.topic = topic)

Payloads(pubs) == [i \in 1..Len(pubs) |-> pubs[i].payload]

\* the poll loop is running: the log holds the events of one call of get()
InLoop == pc \in {"fetch", "refresh", "process", "raising", "sleep", "dead"}

\* get() has returned to fetch_shadow_v2 with the value ret
GetReturned == pc \in {"process", "sleep"} /\ Events("exc") = <<>>

IsInvalidToken(data) == data.isdict /\ data.code = 1010

\* authenticate() succeeded: a success response with a token present
AuthSucceeded(c) == c.isdict /\ c.success /\ c.result = "obj" /\ c.token # NoToken

-----------------------------------------------------------------------------
(* C1..C4: the API client *)

\* C1: one call of get() sends at most one token request and at most two
\* requests for the original path, three requests in all, whatever the server
\* answers; when the retried request is answered with code 1010 again, get()
\* returns that answer and asks for nothing more.
C1_AtMostOneRefreshOneRetry ==
    InLoop =>
       /\ Len(ReqsTo(TOKEN_PATH)) <= 1
       /\ Len(ReqsTo(SHADOW_PATH)) <= 2
       /\ Len(Events("req")) <= 3
       /\ (Len(RespsFrom(SHADOW_PATH)) = 2 /\ IsInvalidToken(RespsFrom(SHADOW_PATH)[2].data))
             => /\ GetReturned
                /\ ret = RespsFrom(SHADOW_PATH)[2].data

\* C1, reached: three requests, the retried one answered 1010 and returned.
C1_Witness ==
    /\ pc = "sleep"
    /\ Len(Events("req")) = 3
    /\ Len(RespsFrom(SHADOW_PATH)) = 2
    /\ IsInvalidToken(RespsFrom(SHADOW_PATH)[2].data)
    /\ ret = RespsFrom(SHADOW_PATH)[2].data

\* C2 (as claimed): get() sends the original request a second time only after
\* a re-authentication that succeeded as authenticate() defines success (a
\* success response with a token present), and the second request is signed
\* with and carries the token of that response.
C2_RetryOnlyWithNewToken ==
    (InLoop /\ Len(ReqsTo(SHADOW_PATH)) = 2) =>
       /\ Len(RespsFrom(TOKEN_PATH)) = 1
       /\ AuthSucceeded(RespsFrom(TOKEN_PATH)[1].data)
       /\ ReqsTo(SHADOW_PATH)[2].sign_token = RespsFrom(TOKEN_PATH)[1].data.token
       /\ ReqsTo(SHADOW_PATH)[2].hdr_token = RespsFrom(TOKEN_PATH)[1].data.token

\* C3: when get() is answered with code 1010 and the re-authentication fails
\* (network error, non-JSON body, success=false), get() returns the 1010
\* answer itself, sends no second request for the path and leaves
\* access_token as it was.
C3_FailedRefreshReturnsOriginal ==
    (InLoop /\ Len(RespsFrom(TOKEN_PATH)) = 1 /\ ~RespsFrom(TOKEN_PATH)[1].data.success) =>
       /\ GetReturned
       /\ Len(ReqsTo(SHADOW_PATH)) = 1
       /\ IsInvalidToken(RespsFrom(SHADOW_PATH)[1].data)
       /\ ret = RespsFrom(SHADOW_PATH)[1].data
       /\ access_token = ReqsTo(SHADOW_PATH)[1].held

\* C3, reached: a token is held, the refresh got a non-JSON body, 1010 is returned.
C3_Witness ==
    /\ pc = "sleep"
    /\ Len(RespsFrom(TOKEN_PATH)) = 1
    /\ RespsFrom(TOKEN_PATH)[1].data.msg = "non-json"
    /\ access_token # NoToken
    /\ ret.code = 1010

\* C4 (as claimed): connect() raises for no answer of the token endpoint, and
\* after it access_token is the token of the answer when the answer is a
\* success carrying a non-empty token, and otherwise what it was before.
C4_ConnectNeverRaises ==
    /\ \A i \in 1..Len(log) : log[i].ev = "exc" => log[i].origin # "connect"
    /\ Len(RespsFrom(TOKEN_PATH)) = 1 =>
          access_token = IF AuthSucceeded(RespsFrom(TOKEN_PATH)[1].data)
                         THEN RespsFrom(TOKEN_PATH)[1].data.token
                         ELSE ReqsTo(TOKEN_PATH)[1].held

-----------------------------------------------------------------------------
(* C5..C10: the poll loop *)

PubsIn(l, topic) == SelectSeq(l, LAMBDA e : e.ev = "pub" /\ e.topic = topic)

\* a non-empty snapshot was obtained within the last OFFLINE_AFTER seconds, or
\* no more than OFFLINE_AFTER seconds have passed since startup (time 0)
Recent ==
    \/ snap_time >= 0 /\ now - snap_time <= OFFLINE_AFTER
    \/ now <= OFFLINE_AFTER

\* C5 (as claimed): in every state of the running loop, avail_state is online
\* if and only if a non-empty snapshot was obtained within the last
\* OFFLINE_AFTER seconds or startup is no more than OFFLINE_AFTER seconds ago.
C5_OnlineIffRecent ==
    avail_state # "unset" => (avail_state = "online" <=> Recent)

\* C5 (amended): avail_state is online whenever a snapshot is recent in that
\* sense; the converse holds at the end of an iteration whose fetch returned,
\* which is where the rule is evaluated.
C5_RecentImpliesOnline ==
    avail_state # "unset" =>
       /\ Recent => avail_state = "online"
       /\ (pc = "sleep" /\ ~raised) => (avail_state = "online" => Recent)

\* C5, reached: offline at the end of an iteration, the last snapshot being too old.
C5_Witness ==
    /\ avail_state = "offline"
    /\ snap_time >= 0
    /\ now - snap_time > OFFLINE_AFTER
    /\ pc = "sleep"

\* C6: the availability payloads published (the startup "online" first)
\* alternate: a step publishes availability at most once, a published payload
\* differs from the one published before it, "online" is published only by an
\* iteration with data and "offline" only by one without; so an iteration with
\* data while online, or without data while offline, publishes none.
C6_AvailabilityAlternates ==
    [][ (pc \in {"fetch", "refresh", "process", "raising", "sleep"}) =>
          LET before == IF pc = "sleep" THEN <<>> ELSE Payloads(PubsIn(log, AVAIL_TOPIC))
              after  == Payloads(PubsIn(log', AVAIL_TOPIC))
          IN  /\ Len(after) <= 1
              /\ Len(after) >= Len(before)
              /\ (Len(after) > Len(before)) =>
                    /\ pc = "process"
                    /\ after[1] # last_avail
                    /\ after[1] = (IF HasData(snapshot') THEN "online" ELSE "offline")
                    /\ last_avail' = after[1]
              /\ (Len(after) = Len(before)) => last_avail' = last_avail ]_vars

\* C6, reached: an iteration with data publishes "online" after an "offline".
C6_Witness ==
    /\ pc = "sleep"
    /\ Payloads(PubsOn(AVAIL_TOPIC)) = <<"online">>
    /\ HasData(snapshot)
    /\ ticks >= 2

\* the iteration numbered n is the first one with k(n) * d > OFFLINE_AFTER
FirstBeyond(k) ==
    /\ k * poll_interval > OFFLINE_AFTER
    /\ (k - 1) * poll_interval <= OFFLINE_AFTER

\* C7 (as claimed): while every iteration since the loop started returned an
\* empty snapshot, iteration N publishes "offline" exactly when N is the first
\* with N * d > OFFLINE_AFTER, and no iteration publishes anything else on the
\* availability topic.
C7_OfflineAtFirstNd ==
    (pc = "sleep" /\ empty_run) =>
       Payloads(PubsOn(AVAIL_TOPIC)) = IF FirstBeyond(ticks) THEN <<"offline">> ELSE <<>>

\* C7 (amended): the first iteration runs at loop start, before any delay, so
\* iteration N runs (N - 1) * d after last_ok was set: it publishes "offline"
\* exactly when N is the first with (N - 1) * d > OFFLINE_AFTER.
C7_OfflineAtFirstElapsed ==
    (pc = "sleep" /\ empty_run) =>
       Payloads(PubsOn(AVAIL_TOPIC)) = IF FirstBeyond(ticks - 1) THEN <<"offline">> ELSE <<>>

\* C7, reached: the fifth or a later empty iteration in a row publishes "offline".
C7_Witness ==
    /\ pc = "sleep"
    /\ empty_run
    /\ ticks >= 5
    /\ Payloads(PubsOn(AVAIL_TOPIC)) = <<"offline">>

\* C8: no outcome of an iteration ends the loop: main never leaves the loop,
\* every iteration reaches time.sleep, and after the sleep (within the bound
\* on iterations) the next iteration starts.
C8_LoopNeverTerminates ==
    /\ [](pc # "dead")
    /\ [](pc \in {"fetch", "refresh", "process", "raising"} => <>(pc = "sleep"))
    /\ []((pc = "sleep" /\ ticks < MaxTicks) => <>(pc = "fetch"))

\* C8, reached: an iteration ended in the except clause and the next one began.
C8_Witness ==
    /\ pc = "fetch"
    /\ raised
    /\ ticks >= 2

\* C9 (as claimed): an iteration whose fetch produced no non-empty snapshot,
\* whatever the cause, evaluates the offline rule: when it ends with more than
\* OFFLINE_AFTER seconds since last_ok, availability is offline.
C9_NoDataEvaluatesOfflineRule ==
    (pc = "sleep" /\ ~HasData(snapshot) /\ now - last_ok > OFFLINE_AFTER)
       => avail_state = "offline"

\* C10: an iteration with a non-empty snapshot publishes the contact topic
\* exactly when pick_boolean finds a value in that snapshot ("ON" or "OFF"),
\* and the battery topic exactly when pick_battery finds one (the integer as
\* a decimal string), each whatever the other field and earlier iterations.
C10_ValuesPublishedIffFound ==
    (pc = "sleep" /\ HasData(snapshot)) =>
       /\ Len(PubsOn(STATE_TOPIC)) = (IF pick_boolean(snapshot) # <<>> THEN 1 ELSE 0)
       /\ \A i \in 1..Len(PubsOn(STATE_TOPIC)) :
             PubsOn(STATE_TOPIC)[i].payload = (IF pick_boolean(snapshot)[1] THEN "ON" ELSE "OFF")
       /\ Len(PubsOn(BATT_TOPIC)) = (IF pick_battery(snapshot) # <<>> THEN 1 ELSE 0)
       /\ \A i \in 1..Len(PubsOn(BATT_TOPIC)) :
             PubsOn(BATT_TOPIC)[i].payload = ToString(pick_battery(snapshot)[1])

\* C10, reached: the same snapshot twice in a row, both values published again.
C10_Witness ==
    /\ pc = "sleep"
    /\ same_as_prev
    /\ Payloads(PubsOn(STATE_TOPIC)) = <<"ON">>
    /\ Payloads(PubsOn(BATT_TOPIC)) = <<"87">>
    /\ Payloads(PubsOn(AVAIL_TOPIC)) = <<>>

-----------------------------------------------------------------------------
(* The extractors on their own: main's "onoff = pick_boolean(by_code)" and  *)
(* "batt = pick_battery(by_code)" applied to a snapshot drawn from a        *)
(* bounded set.                                                            *)

BatteryCodes == <<"battery_percentage", "battery", "battery_state">>

CodesOf(seq) == { seq[i] : i \in 1..Len(seq) }

\* the snapshots with at most MaxPresent of the codes, valued in values
Snapshots(codes, values) ==
    UNION { [S -> values] : S \in { T \in SUBSET codes : Cardinality(T) <= MaxPresent } }

ContactValues ==
    { BoolVal(TRUE), BoolVal(FALSE), IntVal(0), IntVal(2), StrVal(<<"o", "n">>) }

BatteryValues ==
    { BoolVal(TRUE), IntVal(87), FloatTenths(425), FloatTenths(-15),
      StrVal(<<"L", "o", "w", " ">>), StrVal(<<" ", "H", "I", "G", "H">>),
      StrVal(<<"m", "i", "d", "d", "l", "e">>), StrVal(<<"M", "e", "d", "i", "u", "m">>),
      StrVal(<<"u", "n", "k", "n", "o", "w", "n">>), StrVal(<<"l", "o", " ", "w">>) }

SnapshotInputs ==
    Snapshots(CodesOf(ContactCodes), ContactValues)
        \cup Snapshots(CodesOf(BatteryCodes), BatteryValues)

ExtractInit ==
    /\ pc = "extract"
    /\ input \in SnapshotInputs
    /\ output = NotCalled
    /\ access_token = NoToken
    /\ retry = TRUE
    /\ pending = NoData
    /\ ret = NoData
    /\ last_ok = 0
    /\ avail_state = "unset"
    /\ now = 0
    /\ poll_interval = CHOOSE d \in PollIntervals : TRUE
    /\ log = <<>>
    /\ ticks = 0
    /\ last_avail = "none"
    /\ snap_time = -1
    /\ snapshot = EmptySnapshot
    /\ same_as_prev = FALSE
    /\ empty_run = TRUE
    /\ raised = FALSE

\* onoff = pick_boolean(by_code); batt = pick_battery(by_code)
Extract ==
    /\ pc = "extract"
    /\ output' = [onoff |-> pick_boolean(input), batt |-> pick_battery(input)]
    /\ pc' = "extracted"
    /\ UNCHANGED <<access_token, retry, pending, ret, last_ok, avail_state, now,
                   poll_interval, log, ticks, last_avail, snap_time, snapshot,
                   same_as_prev, empty_run, raised, input>>

ExtractNext == Extract

ExtractSpec == ExtractInit /\ [][ExtractNext]_vars

-----------------------------------------------------------------------------
(* C11, C12: the extractors *)

\* the candidate code numbered i is present in by_code with a boolean or an integer
ContactAt(by_code, i) ==
    ContactCodes[i] \in DOMAIN by_code /\ IsBoolOrInt(by_code[ContactCodes[i]])

\* C11: pick_boolean returns the truth value (nonzero is true) of the first
\* code of the fixed order that is present with a boolean or an integer,
\* passing over codes present with another type, and returns absent when
\* there is no such code.
C11_FirstContactCodeWins ==
    pc = "extracted" =>
       /\ \A i \in 1..Len(ContactCodes) :
             (ContactAt(input, i) /\ \A j \in 1..(i - 1) : ~ContactAt(input, j))
                => output.onoff = <<input[ContactCodes[i]].num # 0>>
       /\ (\A i \in 1..Len(ContactCodes) : ~ContactAt(input, i)) => output.onoff = <<>>

\* C11, reached: a string under the first code is passed over, the integer 0
\* under a later code wins over a true under a still later one.
C11_Witness ==
    /\ pc = "extracted"
    /\ DOMAIN input = {"doorcontact_state", "contact", "switch_1"}
    /\ input["doorcontact_state"].type = "str"
    /\ input["contact"] = IntVal(0)
    /\ input["switch_1"] = BoolVal(TRUE)
    /\ output.onoff = <<FALSE>>

\* a JSON number, as opposed to a boolean or a string
IsNumber(v) == v.type \in {"int", "float"}

\* C12 (as claimed): pick_battery returns a numeric battery_percentage
\* truncated; else a numeric battery truncated; else a string battery_state
\* trimmed, case-folded and mapped by low=20, middle=60, medium=60, high=100
\* (absent when unrecognised); and absent when none of the three codes holds
\* a value of its kind, a boolean being neither a number nor a string.
C12_BatteryOrder ==
    pc = "extracted" =>
       output.batt =
          IF "battery_percentage" \in DOMAIN input /\ IsNumber(input["battery_percentage"])
          THEN <<ToInt(input["battery_percentage"])>>
          ELSE IF "battery" \in DOMAIN input /\ IsNumber(input["battery"])
          THEN <<ToInt(input["battery"])>>
          ELSE IF "battery_state" \in DOMAIN input /\ input["battery_state"].type = "str"
          THEN BatteryLevel(Lower(Strip(input["battery_state"].str)))
          ELSE <<>>

-----------------------------------------------------------------------------
(* C13, C14: tokens in requests *)

\* the step sends a request: the request and its response are the last two
\* events of the log after it
Sends(path) ==
    /\ Len(log') >= 2
    /\ log' # log
    /\ pc \in {"connect", "fetch", "refresh"}
    /\ log'[IF log'[Len(log')].ev = "exc" THEN Len(log') - 2 ELSE Len(log') - 1].ev = "req"
    /\ log'[IF log'[Len(log')].ev = "exc" THEN Len(log') - 2 ELSE Len(log') - 1].path = path

SentReq == log'[IF log'[Len(log')].ev = "exc" THEN Len(log') - 2 ELSE Len(log') - 1]

SentResp == log'[IF log'[Len(log')].ev = "exc" THEN Len(log') - 1 ELSE Len(log')]

\* C13: the token held changes only when connect() stores the token of a
\* successful token response; every request get() sends while a token is held
\* has that token, the one stored last, both in the signed message and in the
\* access_token header; and in every request the two are the same value.
C13_HeldTokenSignedAndSent ==
    /\ [](\A i \in 1..Len(log) :
             log[i].ev = "req" => log[i].sign_token = log[i].hdr_token)
    /\ [][ /\ access_token' # access_token =>
                /\ Sends(TOKEN_PATH)
                /\ AuthSucceeded(SentResp.data)
                /\ access_token' = SentResp.data.token
           /\ (Sends(TOKEN_PATH) /\ AuthSucceeded(SentResp.data)) =>
                access_token' = SentResp.data.token
           /\ (Sends(SHADOW_PATH) /\ access_token # NoToken) =>
                /\ SentReq.sign_token = access_token
                /\ SentReq.hdr_token = access_token ]_vars

\* C13, reached: a refresh replaced the token held, and the retried request
\* is signed with and carries the new one.
C13_Witness ==
    /\ pc = "process"
    /\ Len(ReqsTo(SHADOW_PATH)) = 2
    /\ ReqsTo(SHADOW_PATH)[1].sign_token = "tokA"
    /\ RespsFrom(TOKEN_PATH)[1].data.token = "tokB"
    /\ ReqsTo(SHADOW_PATH)[2].sign_token = "tokB"
    /\ ReqsTo(SHADOW_PATH)[2].hdr_token = "tokB"

\* C14 (as claimed): every request get() sends to the device-shadow endpoint
\* carries a token in its signed message and in its access_token header, also
\* when the startup connect() obtained none.
C14_ShadowRequestsAuthenticated ==
    \A i \in 1..Len(log) :
       (log[i].ev = "req" /\ log[i].path = SHADOW_PATH) =>
          /\ log[i].sign_token # NoToken
          /\ log[i].hdr_token # NoToken

-----------------------------------------------------------------------------
(* The path of a request on its own: _request's qs, full_path,             *)
(* string_to_sign and url, built for a parameter mapping given in two      *)
(* insertion orders.  A key, a value and the query string are sequences of *)
(* characters; the path and the other fixed pieces are single elements.    *)

ParamKeys == { <<"a">>, <<"b">>, <<"a", "b">> }

ParamValues == { IntVal(1), IntVal(12), StrVal(<<"x", " ", "&">>) }

DigitChars == <<"0", "1", "2", "3", "4", "5", "6", "7", "8", "9">>

\* the characters in use, by increasing code point
CodePointOrder ==
    <<" ", "&", "-">> \o DigitChars \o <<"=">> \o UpperChars \o <<"_">> \o LowerChars

Ord(c) == CHOOSE i \in 1..Len(CodePointOrder) : CodePointOrder[i] = c

RECURSIVE Digits(_)
Digits(n) ==
    IF n < 0 THEN <<"-">> \o Digits(-n)
    ELSE IF n < 10 THEN <<DigitChars[n + 1]>>
    ELSE Digits(n \div 10) \o <<DigitChars[(n % 10) + 1]>>

\* str(v)
Str(v) == IF v.type = "int" THEN Digits(v.num) ELSE v.str

\* [(k, str(v)) for k, v in params.items()]
StrPairs(params) == [i \in 1..Len(params) |-> [k |-> params[i].k, v |-> Str(params[i].v)]]

\* a < b for two strings
StrLess(a, b) ==
    \/ Len(a) < Len(b) /\ SubSeq(b, 1, Len(a)) = a
    \/ \E i \in 1..Len(a) :
          /\ i <= Len(b)
          /\ SubSeq(a, 1, i - 1) = SubSeq(b, 1, i - 1)
          /\ Ord(a[i]) < Ord(b[i])

\* x < y for two tuples (k, v)
PairLess(x, y) == StrLess(x.k, y.k) \/ (x.k = y.k /\ StrLess(x.v, y.v))

Without(seq, i) == SubSeq(seq, 1, i - 1) \o SubSeq(seq, i + 1, Len(seq))

\* faulty variant: the pairs are taken in the order of the mapping
SortedPairs_AsSupplied(pairs) == pairs

\* sorted(...): the first smallest element, then the rest sorted
RECURSIVE SortedPairs(_)
SortedPairs(pairs) ==
    IF pairs = <<>> THEN <<>>
    ELSE LET m == CHOOSE i \in 1..Len(pairs) :
                     /\ \A j \in 1..Len(pairs) : ~PairLess(pairs[j], pairs[i])
                     /\ \A j \in 1..(i - 1) : PairLess(pairs[i], pairs[j])
         IN  <<pairs[m]>> \o SortedPairs(Without(pairs, m))

\* quote_plus of one character: letters, digits and "_.-~" are kept
QuoteChar(c) ==
    CASE c = " " -> <<"+">>
      [] c = "&" -> <<"%", "2", "6">>
      [] c = "=" -> <<"%", "3", "D">>
      [] OTHER   -> <<c>>

RECURSIVE QuotePlus(_)
QuotePlus(str) ==
    IF str = <<>> THEN <<>> ELSE QuoteChar(Head(str)) \o QuotePlus(Tail(str))

\* urlencode(pairs): k=v joined by &
RECURSIVE UrlEncode(_)
UrlEncode(pairs) ==
    IF pairs = <<>> THEN <<>>
    ELSE QuotePlus(pairs[1].k) \o <<"=">> \o QuotePlus(pairs[1].v)
         \o (IF Len(pairs) > 1 THEN <<"&">> \o UrlEncode(Tail(pairs)) ELSE <<>>)

\* qs = urlencode(sorted(...)) if params else ''
QueryString(params) ==
    IF params = <<>> THEN <<>> ELSE UrlEncode(SortedPairs(StrPairs(params)))

\* full_path = f"{path}?{qs}" if qs else path
FullPath(path, params) ==
    LET qs == QueryString(params)
    IN  IF qs # <<>> THEN <<path, "?">> \o qs ELSE <<path>>

\* what _request builds from full_path: string_to_sign and url
Built(path, params) ==
    LET full_path == FullPath(path, params)
    IN  [full_path      |-> full_path,
         string_to_sign |-> <<"GET", "\n", "SHA256('')", "\n", "\n">> \o full_path,
         url            |-> <<"BASE_URL">> \o full_path]

\* the mappings of n parameters, as the sequence of their items in insertion order
Mappings(n) ==
    { m \in [1..n -> [k : ParamKeys, v : ParamValues]] :
         \A i, j \in 1..n : m[i].k = m[j].k => i = j }

Orders(n) == { f \in [1..n -> 1..n] : \A i, j \in 1..n : f[i] = f[j] => i = j }

\* a mapping in two insertion orders
ParamsInputs ==
    UNION { { [path |-> TOKEN_PATH, first |-> m, second |-> [i \in 1..n |-> m[f[i]]]] :
                 m \in Mappings(n), f \in Orders(n) } : n \in 0..Cardinality(ParamKeys) }

PathInit ==
    /\ pc = "build"
    /\ input \in ParamsInputs
    /\ output = NotCalled
    /\ access_token = NoToken
    /\ retry = TRUE
    /\ pending = NoData
    /\ ret = NoData
    /\ last_ok = 0
    /\ avail_state = "unset"
    /\ now = 0
    /\ poll_interval = CHOOSE d \in PollIntervals : TRUE
    /\ log = <<>>
    /\ ticks = 0
    /\ last_avail = "none"
    /\ snap_time = -1
    /\ snapshot = EmptySnapshot
    /\ same_as_prev = FALSE
    /\ empty_run = TRUE
    /\ raised = FALSE

\* the two calls of _request up to the url
BuildPath ==
    /\ pc = "build"
    /\ output' = [first  |-> Built(input.path, input.first),
                  second |-> Built(input.path, input.second)]
    /\ pc' = "built"
    /\ UNCHANGED <<access_token, retry, pending, ret, last_ok, avail_state, now,
                   poll_interval, log, ticks, last_avail, snap_time, snapshot,
                   same_as_prev, empty_run, raised, input>>

PathNext == BuildPath

PathSpec == PathInit /\ [][PathNext]_vars

-----------------------------------------------------------------------------
(* C15: the query string *)

\* C15: two parameter mappings with the same key-value pairs, whatever the
\* order they were supplied in, give the same query string, and with it the
\* same path in string_to_sign and in the URL; the pairs appear in it by
\* increasing key, and a mapping without parameters gives the bare path.
C15_QueryOrderIndependent ==
    pc = "built" =>
       /\ output.first = output.second
       /\ output.first.string_to_sign[Len(output.first.string_to_sign)]
             = output.first.url[Len(output.first.url)]
       /\ input.first = <<>> => output.first.full_path = <<input.path>>
       /\ \A i, j \in 1..Len(input.first) :
             StrLess(input.first[i].k, input.first[j].k) =>
                \E a, b \in 1..Len(output.first.full_path) :
                   /\ a < b
                   /\ SubSeq(output.first.full_path, a, a + Len(input.first[i].k))
                         = input.first[i].k \o <<"=">>
                   /\ SubSeq(output.first.full_path, b, b + Len(input.first[j].k))
                         = input.first[j].k \o <<"=">>
                   /\ output.first.full_path[a - 1] \in {"?", "&"}
                   /\ output.first.full_path[b - 1] = "&"

\* C15, reached: {b: 12, a: 1} and {a: 1, b: 12} both give ?a=1&b=12.
C15_Witness ==
    /\ pc = "built"
    /\ input.first = <<[k |-> <<"b">>, v |-> IntVal(12)], [k |-> <<"a">>, v |-> IntVal(1)]>>
    /\ input.second = <<[k |-> <<"a">>, v |-> IntVal(1)], [k |-> <<"b">>, v |-> IntVal(12)]>>
    /\ output.first.full_path
          = <<TOKEN_PATH, "?", "a", "=", "1", "&", "b", "=", "1", "2">>
    /\ output.second.full_path = output.first.full_path

-----------------------------------------------------------------------------
(* C18: the token endpoint *)

\* C18: a request to the token endpoint is sent with use_token off: no token
\* in its signed message and none in its headers, also while a token is held;
\* and an answer of the token endpoint, code 1010 included, starts no further
\* token request: one connect() sends one request.
C18_TokenRequestsUnauthenticated ==
    /\ \A i \in 1..Len(log) :
          (log[i].ev = "req" /\ log[i].path = TOKEN_PATH) =>
             /\ ~log[i].use_token
             /\ log[i].sign_token = NoToken
             /\ log[i].hdr_token = NoToken
    /\ Len(ReqsTo(TOKEN_PATH)) <= 1
    /\ (Len(RespsFrom(TOKEN_PATH)) = 1 /\ IsInvalidToken(RespsFrom(TOKEN_PATH)[1].data))
          => pc \notin {"connect", "refresh"}

\* C18, reached: a refresh sent while a token was held was answered 1010, and
\* get() returned the first answer.
C18_Witness ==
    /\ pc = "sleep"
    /\ Len(ReqsTo(TOKEN_PATH)) = 1
    /\ ReqsTo(TOKEN_PATH)[1].held # NoToken
    /\ ReqsTo(TOKEN_PATH)[1].sign_token = NoToken
    /\ IsInvalidToken(RespsFrom(TOKEN_PATH)[1].data)
    /\ Len(ReqsTo(SHADOW_PATH)) = 1

-----------------------------------------------------------------------------
(* C16, C17, C19: startup and the loop's frame *)

\* C16: before main's first request the log holds exactly the two discovery
\* publishes followed by one availability publish, "online"; every request
\* comes after them; the first iteration starts with avail_state online; and
\* "offline" is not published until more than OFFLINE_AFTER seconds after the
\* loop started (time 0).
C16_StartupOrder ==
    /\ pc = "boot" => log = <<>>
    /\ pc \in {"connect", "loop"} =>
          /\ Len(log) >= 3
          /\ log[1] = PubEvent("homeassistant/binary_sensor/ENTITY_ID/config", "cfg")
          /\ log[2] = PubEvent("homeassistant/sensor/ENTITY_ID_battery/config", "batt_cfg")
          /\ log[3] = PubEvent(AVAIL_TOPIC, "online")
          /\ Len(PubsOn(AVAIL_TOPIC)) = 1
          /\ \A i \in 1..Len(log) : log[i].ev = "req" => i > 3
    /\ (InLoop /\ ticks = 1 /\ pc \in {"fetch", "refresh"}) => avail_state = "online"
    /\ (avail_state = "offline" \/ last_avail = "offline" \/ "offline" \in
          { log[i].payload : i \in { j \in 1..Len(log) : log[j].ev = "pub" } })
          => now > OFFLINE_AFTER

\* C16, reached: the startup connect() was answered after the three publishes.
C16_Witness ==
    /\ pc = "loop"
    /\ Len(log) = 5
    /\ log[3] = PubEvent(AVAIL_TOPIC, "online")
    /\ log[4].ev = "req"
    /\ log[4].path = TOKEN_PATH

\* C17: inside the loop, last_ok is set to the current time by the step that
\* ends an iteration with a non-empty snapshot, and every other step (a
\* request, a refresh, an iteration without data, an exception, the sleep)
\* leaves it as it was.
C17_LastOkOnlyByDataTick ==
    [][ (pc \in {"fetch", "refresh", "process", "raising", "sleep"}) =>
          IF pc = "process" /\ pc' = "sleep" /\ HasData(snapshot')
          THEN last_ok' = now
          ELSE last_ok' = last_ok ]_vars

\* C17, reached: last_ok is still the time of the last snapshot after an
\* iteration that raised, at a later time.
C17_Witness ==
    /\ pc = "sleep"
    /\ raised
    /\ snap_time > 0
    /\ last_ok = snap_time
    /\ now > last_ok

\* a publish of a contact or battery value
IsValuePub(e) == e.ev = "pub" /\ e.topic \in {STATE_TOPIC, BATT_TOPIC}

\* C19: an iteration's value publishes come after its availability publish,
\* if it has one, and that one is "online"; whenever values were published the
\* latest availability published is "online"; and an iteration without data,
\* or one that raised, publishes no value.
C19_ValuesOnlyWhileOnline ==
    InLoop =>
       /\ \A i, j \in 1..Len(log) :
             (IsValuePub(log[i]) /\ log[j].ev = "pub" /\ log[j].topic = AVAIL_TOPIC) =>
                /\ j < i
                /\ log[j].payload = "online"
       /\ (\E i \in 1..Len(log) : IsValuePub(log[i])) =>
             /\ last_avail = "online"
             /\ avail_state = "online"
       /\ (pc = "sleep" /\ ~HasData(snapshot)) =>
             \A i \in 1..Len(log) : ~IsValuePub(log[i])

\* C19, reached: an iteration that recovers from offline publishes "online",
\* then the contact state, then the battery level.
C19_Witness ==
    /\ pc = "sleep"
    /\ ticks >= 2
    /\ Len(Events("pub")) = 3
    /\ Events("pub")[1] = PubEvent(AVAIL_TOPIC, "online")
    /\ Events("pub")[2].topic = STATE_TOPIC
    /\ Events("pub")[3].topic = BATT_TOPIC

====
